---- MODULE Spec2Model ----
(***************************************************************************)
(* mcp-homescan: the ARP-table parser, the device aggregation, the ping    *)
(* sweep and the tool-call handlers that keep the last scan for diffing.   *)
(*                                                                         *)
(* Strings of the program are sequences of one-character strings, so that  *)
(* split, startsWith, substring, toLowerCase and the regular expression    *)
(* of parseArpOutput are computed character by character.                  *)
(***************************************************************************)
EXTENDS Integers, Sequences, FiniteSets, TLC

VARIABLES
    lastScanResults,  \* index.ts: lastScanResults, the stored device list
    lastScanTime,     \* index.ts: lastScanTime, 0 stands for null
    clock,            \* the wall clock read by new Date()
    snapHist,         \* history: which request stored the list, and when its arp -a ran;
                      \* used, lost: the writers of the lists a diff, a discover replaced
    reqs,             \* the tool calls in flight, one record per dispatcher slot
    answered,         \* the tool call answered last, with its answer
    arrived,          \* number of tool calls received so far
    sweep,            \* the pingSweep call of the request in flight
    scan              \* a stand-alone run of parseArpOutput and the aggregation of discoverDevices

vars == <<lastScanResults, lastScanTime, clock, snapHist, reqs, answered, arrived, sweep, scan>>

(***************************************************************************)
(* Characters and strings                                                  *)
(***************************************************************************)
Digit == {"0","1","2","3","4","5","6","7","8","9"}

LowerAlpha == {"a","b","c","d","e","f","g","h","i","j","k","l","m",
               "n","o","p","q","r","s","t","u","v","w","x","y","z"}

UpperAlpha == {"A","B","C","D","E","F","G","H","I","J","K","L","M",
               "N","O","P","Q","R","S","T","U","V","W","X","Y","Z"}

\* \s of the regular expression, as far as a line of arp output can hold it
WhiteSpace == {" ", "\t", "\r"}

\* \w of the regular expression
WordChar == Digit \cup LowerAlpha \cup UpperAlpha \cup {"_"}

\* [0-9a-f:] under the i flag
HexColon == Digit \cup {"a","b","c","d","e","f","A","B","C","D","E","F",":"}

LowerOf ==
    [c \in UpperAlpha |->
        CASE c = "A" -> "a" [] c = "B" -> "b" [] c = "C" -> "c" [] c = "D" -> "d"
          [] c = "E" -> "e" [] c = "F" -> "f" [] c = "G" -> "g" [] c = "H" -> "h"
          [] c = "I" -> "i" [] c = "J" -> "j" [] c = "K" -> "k" [] c = "L" -> "l"
          [] c = "M" -> "m" [] c = "N" -> "n" [] c = "O" -> "o" [] c = "P" -> "p"
          [] c = "Q" -> "q" [] c = "R" -> "r" [] c = "S" -> "s" [] c = "T" -> "t"
          [] c = "U" -> "u" [] c = "V" -> "v" [] c = "W" -> "w" [] c = "X" -> "x"
          [] c = "Y" -> "y" [] c = "Z" -> "z"]

LowerChar(c) == IF c \in UpperAlpha THEN LowerOf[c] ELSE c

\* String.prototype.toLowerCase
toLowerCase(s) == [i \in 1..Len(s) |-> LowerChar(s[i])]

\* String.prototype.startsWith
startsWith(s, prefix) ==
    /\ Len(s) >= Len(prefix)
    /\ SubSeq(s, 1, Len(prefix)) = prefix

\* String.prototype.substring(from, to), 0-based, end exclusive, clamped to the length
substring(s, from, to) ==
    SubSeq(s, from + 1, IF to > Len(s) THEN Len(s) ELSE to)

\* String.prototype.charAt(i), 0-based; the empty string past the end
charAt(s, i) == IF i + 1 <= Len(s) THEN <<s[i + 1]>> ELSE <<>>

\* index of the first occurrence of character c in s at or after p, Len(s)+1 when none
RECURSIVE IndexOfChar(_, _, _)
IndexOfChar(s, c, p) ==
    IF p > Len(s) THEN Len(s) + 1
    ELSE IF s[p] = c THEN p
    ELSE IndexOfChar(s, c, p + 1)

\* String.prototype.split(sep) for a one-character separator
RECURSIVE split(_, _)
split(s, sep) ==
    LET k == IndexOfChar(s, sep, 1)
    IN  IF k > Len(s) THEN <<s>>
        ELSE <<SubSeq(s, 1, k - 1)>> \o split(SubSeq(s, k + 1, Len(s)), sep)

(***************************************************************************)
(* parseArpOutput: the regular expression                                  *)
(*   /\?\s+\((\d+\.\d+\.\d+\.\d+)\)\s+at\s+([0-9a-f:]+)\s+on\s+(\w+)/i     *)
(* Every quantified class is disjoint from the first character of what     *)
(* follows it, so the greedy match is the longest run of the class.        *)
(***************************************************************************)
\* the first position at or after p whose character is outside class
RECURSIVE RunEnd(_, _, _)
RunEnd(line, p, class) ==
    IF p > Len(line) THEN p
    ELSE IF line[p] \in class THEN RunEnd(line, p + 1, class)
    ELSE p

NoMatch == [ok |-> FALSE, ip |-> <<>>, mac |-> <<>>, iface |-> <<>>]

\* the match of the expression anchored at position p of the line
MatchAt(line, p) ==
    LET Ch(i) == IF i >= 1 /\ i <= Len(line) THEN line[i] ELSE ""
        s1 == RunEnd(line, p + 1, WhiteSpace)
        o1 == RunEnd(line, s1 + 1, Digit)
        o2 == RunEnd(line, o1 + 1, Digit)
        o3 == RunEnd(line, o2 + 1, Digit)
        o4 == RunEnd(line, o3 + 1, Digit)
        s2 == RunEnd(line, o4 + 1, WhiteSpace)
        s3 == RunEnd(line, s2 + 2, WhiteSpace)
        m  == RunEnd(line, s3, HexColon)
        s4 == RunEnd(line, m, WhiteSpace)
        s5 == RunEnd(line, s4 + 2, WhiteSpace)
        w  == RunEnd(line, s5, WordChar)
    IN  IF /\ Ch(p) = "?"
           /\ s1 > p + 1
           /\ Ch(s1) = "("
           /\ o1 > s1 + 1 /\ Ch(o1) = "."
           /\ o2 > o1 + 1 /\ Ch(o2) = "."
           /\ o3 > o2 + 1 /\ Ch(o3) = "."
           /\ o4 > o3 + 1 /\ Ch(o4) = ")"
           /\ s2 > o4 + 1
           /\ LowerChar(Ch(s2)) = "a" /\ LowerChar(Ch(s2 + 1)) = "t"
           /\ s3 > s2 + 2
           /\ m > s3
           /\ s4 > m
           /\ LowerChar(Ch(s4)) = "o" /\ LowerChar(Ch(s4 + 1)) = "n"
           /\ s5 > s4 + 2
           /\ w > s5
        THEN [ok |-> TRUE,
              ip |-> SubSeq(line, s1 + 1, o4 - 1),
              mac |-> SubSeq(line, s3, m - 1),
              iface |-> SubSeq(line, s5, w - 1)]
        ELSE NoMatch

\* line.match(...): the leftmost position at which the expression matches
RECURSIVE MatchFrom(_, _)
MatchFrom(line, p) ==
    IF p > Len(line) THEN NoMatch
    ELSE IF MatchAt(line, p).ok THEN MatchAt(line, p)
    ELSE MatchFrom(line, p + 1)

macosMatch(line) == MatchFrom(line, 1)

IncompleteMarker == <<"(","i","n","c","o","m","p","l","e","t","e",")">>

Multicast224 == <<"2","2","4",".">>

Multicast239 == <<"2","3","9",".">>

\* ParseLine without the test for 239.x addresses
ParseLineKeeps239(line) ==
    LET mm == macosMatch(line)
    IN  IF /\ mm.ok
           /\ mm.mac # <<>>
           /\ mm.mac # IncompleteMarker
           /\ ~startsWith(mm.ip, Multicast224)
        THEN <<[ip |-> mm.ip,
                mac |-> toLowerCase(mm.mac),
                interface |-> mm.iface,
                complete |-> TRUE]>>
        ELSE <<>>

\* the entries one line contributes: none, or one
ParseLine(line) ==
    LET mm == macosMatch(line)
    IN  IF /\ mm.ok
           /\ mm.mac # <<>>
           /\ mm.mac # IncompleteMarker
           /\ ~startsWith(mm.ip, Multicast224)
           /\ ~startsWith(mm.ip, Multicast239)
        THEN <<[ip |-> mm.ip,
                mac |-> toLowerCase(mm.mac),
                interface |-> mm.iface,
                complete |-> TRUE]>>
        ELSE <<>>

RECURSIVE ParseLines(_)
ParseLines(lines) ==
    IF lines = <<>> THEN <<>>
    ELSE ParseLine(Head(lines)) \o ParseLines(Tail(lines))

parseArpOutput(output) == ParseLines(split(output, "\n"))

(***************************************************************************)
(* Vendor lookup                                                           *)
(***************************************************************************)
MAC_VENDORS ==
    {
      [prefix |-> <<"0","0",":","8","a",":","7","6">>, vendor |-> <<"A","p","p","l","e">>],
      [prefix |-> <<"a","0",":","c","e",":","c","8">>, vendor |-> <<"A","p","p","l","e">>],
      [prefix |-> <<"a","c",":","d","e",":","4","8">>, vendor |-> <<"A","p","p","l","e">>],
      [prefix |-> <<"f","0",":","1","8",":","9","8">>, vendor |-> <<"A","p","p","l","e">>],
      [prefix |-> <<"8","8",":","d","e",":","7","c">>, vendor |-> <<"M","i","t","r","a","s","t","a","r"," ","T","e","c","h","n","o","l","o","g","y"," ","(","I","S","P"," ","R","o","u","t","e","r",")">>],
      [prefix |-> <<"0","0",":","1","1",":","3","2">>, vendor |-> <<"S","y","n","o","l","o","g","y">>],
      [prefix |-> <<"d","c",":","a","6",":","3","2">>, vendor |-> <<"R","a","s","p","b","e","r","r","y"," ","P","i"," ","F","o","u","n","d","a","t","i","o","n">>],
      [prefix |-> <<"b","8",":","2","7",":","e","b">>, vendor |-> <<"R","a","s","p","b","e","r","r","y"," ","P","i"," ","F","o","u","n","d","a","t","i","o","n">>],
      [prefix |-> <<"e","4",":","5","f",":","0","1">>, vendor |-> <<"R","a","s","p","b","e","r","r","y"," ","P","i"," ","F","o","u","n","d","a","t","i","o","n">>],
      [prefix |-> <<"e","4",":","2","4",":","6","c">>, vendor |-> <<"X","i","a","o","m","i">>],
      [prefix |-> <<"5","8",":","d","3",":","4","9">>, vendor |-> <<"G","o","o","g","l","e"," ","(","N","e","s","t","/","C","h","r","o","m","e","c","a","s","t",")">>],
      [prefix |-> <<"f","4",":","f","5",":","d","8">>, vendor |-> <<"G","o","o","g","l","e">>],
      [prefix |-> <<"5","4",":","6","0",":","0","9">>, vendor |-> <<"G","o","o","g","l","e">>],
      [prefix |-> <<"4","8",":","e","1",":","5","c">>, vendor |-> <<"S","a","m","s","u","n","g">>],
      [prefix |-> <<"b","8",":","8","a",":","e","c">>, vendor |-> <<"H","u","m","a","x">>],
      [prefix |-> <<"0","0",":","0","9",":","b","0">>, vendor |-> <<"O","n","k","y","o">>],
      [prefix |-> <<"0","0",":","0","4",":","4","b">>, vendor |-> <<"N","v","i","d","i","a">>],
      [prefix |-> <<"b","c",":","7","4",":","4","b">>, vendor |-> <<"C","h","i","n","a"," ","M","o","b","i","l","e">>],
      [prefix |-> <<"7","c",":","4","9",":","e","b">>, vendor |-> <<"X","i","a","o","m","i">>],
      [prefix |-> <<"2","8",":","6","c",":","0","7">>, vendor |-> <<"X","i","a","o","m","i">>],
      [prefix |-> <<"6","4",":","9","0",":","c","1">>, vendor |-> <<"X","i","a","o","m","i">>],
      [prefix |-> <<"7","8",":","1","1",":","d","c">>, vendor |-> <<"X","i","a","o","m","i">>],
      [prefix |-> <<"4","4",":","6","5",":","0","d">>, vendor |-> <<"A","m","a","z","o","n">>],
      [prefix |-> <<"6","8",":","5","4",":","f","d">>, vendor |-> <<"A","m","a","z","o","n">>],
      [prefix |-> <<"a","0",":","0","2",":","d","c">>, vendor |-> <<"A","m","a","z","o","n">>],
      [prefix |-> <<"7","c",":","b","b",":","8","a">>, vendor |-> <<"N","i","n","t","e","n","d","o">>],
      [prefix |-> <<"0","0",":","1","a",":","e","8">>, vendor |-> <<"N","i","n","t","e","n","d","o">>],
      [prefix |-> <<"0","0",":","2","2",":","a","a">>, vendor |-> <<"S","o","n","y"," ","P","l","a","y","S","t","a","t","i","o","n">>],
      [prefix |-> <<"0","0",":","2","4",":","8","d">>, vendor |-> <<"S","o","n","y"," ","P","l","a","y","S","t","a","t","i","o","n">>],
      [prefix |-> <<"0","0",":","1","d",":","d","8">>, vendor |-> <<"M","i","c","r","o","s","o","f","t"," ","X","b","o","x">>],
      [prefix |-> <<"0","0",":","1","8",":","0","a">>, vendor |-> <<"A","S","U","S">>],
      [prefix |-> <<"1","c",":","8","7",":","2","c">>, vendor |-> <<"A","S","U","S">>],
      [prefix |-> <<"0","0",":","1","4",":","b","f">>, vendor |-> <<"L","i","n","k","s","y","s">>],
      [prefix |-> <<"c","8",":","d","7",":","1","9">>, vendor |-> <<"C","i","s","c","o","-","L","i","n","k","s","y","s">>],
      [prefix |-> <<"0","0",":","1","e",":","5","8">>, vendor |-> <<"D","-","L","i","n","k">>],
      [prefix |-> <<"0","0",":","2","6",":","5","a">>, vendor |-> <<"D","-","L","i","n","k">>],
      [prefix |-> <<"e","0",":","4","6",":","9","a">>, vendor |-> <<"N","e","t","g","e","a","r">>],
      [prefix |-> <<"a","4",":","2","b",":","8","c">>, vendor |-> <<"N","e","t","g","e","a","r">>],
      [prefix |-> <<"0","0",":","2","4",":","b","2">>, vendor |-> <<"N","e","t","g","e","a","r">>],
      [prefix |-> <<"3","0",":","b","5",":","c","2">>, vendor |-> <<"T","P","-","L","i","n","k">>],
      [prefix |-> <<"5","0",":","c","7",":","b","f">>, vendor |-> <<"T","P","-","L","i","n","k">>],
      [prefix |-> <<"e","c",":","0","8",":","6","b">>, vendor |-> <<"T","P","-","L","i","n","k">>],
      [prefix |-> <<"0","0",":","0","c",":","2","9">>, vendor |-> <<"V","M","w","a","r","e">>],
      [prefix |-> <<"0","0",":","5","0",":","5","6">>, vendor |-> <<"V","M","w","a","r","e">>],
      [prefix |-> <<"0","8",":","0","0",":","2","7">>, vendor |-> <<"V","i","r","t","u","a","l","B","o","x">>],
      [prefix |-> <<"5","2",":","5","4",":","0","0">>, vendor |-> <<"Q","E","M","U","/","K","V","M">>]
    }

\* MAC_VENDORS[prefix]; the empty string stands for undefined (both are falsy)
VendorOf(prefix) ==
    IF \E e \in MAC_VENDORS : e.prefix = prefix
    THEN (CHOOSE e \in MAC_VENDORS : e.prefix = prefix).vendor
    ELSE <<>>

lookupMacVendor(mac) == VendorOf(substring(toLowerCase(mac), 0, 8))

isPrivateMac(mac) ==
    LET secondChar == toLowerCase(charAt(mac, 1))
    IN  secondChar \in {<<"2">>, <<"6">>, <<"a">>, <<"e">>}

PrivateRandomized ==
    <<"P","r","i","v","a","t","e","/","R","a","n","d","o","m","i","z","e","d"," ","M","A","C">>

Unknown == <<"U","n","k","n","o","w","n">>

(***************************************************************************)
(* discoverDevices: deduplication, filters, manufacturer, sort             *)
(***************************************************************************)
LinkLocalPrefix == <<"1","6","9",".","2","5","4",".">>

VmBridgePrefix == <<"1","9","2",".","1","6","8",".","6","4",".">>

\* the Device pushed for an entry that passed the filters
MakeDevice(entry, now) ==
    LET manufacturer == lookupMacVendor(entry.mac)
        isPrivate == isPrivateMac(entry.mac)
    IN  [ip |-> entry.ip,
         mac |-> entry.mac,
         manufacturer |-> IF manufacturer # <<>> THEN manufacturer
                          ELSE IF isPrivate THEN PrivateRandomized
                          ELSE Unknown,
         lastSeen |-> now]

\* the for loop over arpEntries, with its set seen and its list devices
RECURSIVE DedupLoop(_, _, _, _)
DedupLoop(arpEntries, seen, devices, now) ==
    IF arpEntries = <<>> THEN devices
    ELSE LET entry == Head(arpEntries)
             rest == Tail(arpEntries)
         IN  IF entry.mac \in seen
             THEN DedupLoop(rest, seen, devices, now)
             ELSE IF startsWith(entry.ip, LinkLocalPrefix)
             THEN DedupLoop(rest, seen \cup {entry.mac}, devices, now)
             ELSE IF startsWith(entry.ip, VmBridgePrefix)
             THEN DedupLoop(rest, seen \cup {entry.mac}, devices, now)
             ELSE DedupLoop(rest, seen \cup {entry.mac},
                            Append(devices, MakeDevice(entry, now)), now)

DigitValue(c) ==
    CASE c = "0" -> 0 [] c = "1" -> 1 [] c = "2" -> 2 [] c = "3" -> 3 [] c = "4" -> 4
      [] c = "5" -> 5 [] c = "6" -> 6 [] c = "7" -> 7 [] c = "8" -> 8 [] c = "9" -> 9

\* Number(s) for a string of decimal digits
RECURSIVE Number(_)
Number(s) ==
    IF s = <<>> THEN 0
    ELSE 10 * Number(SubSeq(s, 1, Len(s) - 1)) + DigitValue(s[Len(s)])

\* ip.split(".").map(Number)
Octets(ip) ==
    LET parts == split(ip, ".")
    IN  [i \in 1..Len(parts) |-> Number(parts[i])]

\* the comparator of devices.sort: the difference at the first octet that differs
RECURSIVE CompareFrom(_, _, _)
CompareFrom(aOctets, bOctets, i) ==
    IF i > 4 THEN 0
    ELSE IF aOctets[i] # bOctets[i] THEN aOctets[i] - bOctets[i]
    ELSE CompareFrom(aOctets, bOctets, i + 1)

\* the code of a character of a dotted address
CharCode(c) == IF c = "." THEN 46 ELSE 48 + DigitValue(c)

\* the comparison of two strings character by character
RECURSIVE LexCompare(_, _)
LexCompare(s, t) ==
    IF s = <<>> THEN (IF t = <<>> THEN 0 ELSE -1)
    ELSE IF t = <<>> THEN 1
    ELSE IF Head(s) # Head(t) THEN CharCode(Head(s)) - CharCode(Head(t))
    ELSE LexCompare(Tail(s), Tail(t))

\* CompareIp comparing the addresses as strings
CompareIpLexical(a, b) == LexCompare(a.ip, b.ip)

CompareIp(a, b) == CompareFrom(Octets(a.ip), Octets(b.ip), 1)

\* Array.prototype.sort is stable: d goes behind every element it does not precede
RECURSIVE InsertSorted(_, _)
InsertSorted(sorted, d) ==
    IF sorted = <<>> THEN <<d>>
    ELSE IF CompareIp(d, Head(sorted)) < 0 THEN <<d>> \o sorted
    ELSE <<Head(sorted)>> \o InsertSorted(Tail(sorted), d)

RECURSIVE SortDevices(_)
SortDevices(devices) ==
    IF devices = <<>> THEN <<>>
    ELSE InsertSorted(SortDevices(SubSeq(devices, 1, Len(devices) - 1)),
                      devices[Len(devices)])

\* discoverDevices once getArpTable has returned arpEntries, at clock value now
DevicesOf(arpEntries, now) == SortDevices(DedupLoop(arpEntries, {}, <<>>, now))

(***************************************************************************)
(* homescan_flagged: the filter and the categories                         *)
(***************************************************************************)
Xiaomi == <<"X","i","a","o","m","i">>

China == <<"C","h","i","n","a">>

\* String.prototype.includes
includes(s, sub) ==
    \E p \in 0..(Len(s) - Len(sub)) : SubSeq(s, p + 1, p + Len(sub)) = sub

\* the predicate of devices.filter
IsFlagged(d) ==
    \/ includes(d.manufacturer, Xiaomi)
    \/ includes(d.manufacturer, China)
    \/ d.manufacturer = Unknown
    \/ d.manufacturer = PrivateRandomized

\* Categorize rating a Chinese manufacturer MEDIUM
CategorizeChinaMedium(d) ==
    IF includes(d.manufacturer, Xiaomi)
    THEN [device |-> d, flag_reason |-> "Xiaomi device", risk_level |-> "MEDIUM"]
    ELSE IF includes(d.manufacturer, China)
    THEN [device |-> d, flag_reason |-> "Chinese manufacturer", risk_level |-> "MEDIUM"]
    ELSE IF d.manufacturer = PrivateRandomized
    THEN [device |-> d, flag_reason |-> "Randomized MAC", risk_level |-> "LOW"]
    ELSE [device |-> d, flag_reason |-> "Unknown manufacturer", risk_level |-> "MEDIUM"]

\* the function of flagged.map: the device with its flag_reason and risk_level
Categorize(d) ==
    IF includes(d.manufacturer, Xiaomi)
    THEN [device |-> d, flag_reason |-> "Xiaomi device", risk_level |-> "MEDIUM"]
    ELSE IF includes(d.manufacturer, China)
    THEN [device |-> d, flag_reason |-> "Chinese manufacturer", risk_level |-> "HIGH"]
    ELSE IF d.manufacturer = PrivateRandomized
    THEN [device |-> d, flag_reason |-> "Randomized MAC", risk_level |-> "LOW"]
    ELSE [device |-> d, flag_reason |-> "Unknown manufacturer", risk_level |-> "MEDIUM"]

\* the object homescan_flagged reports for a device list
FlaggedReport(devices) ==
    LET flagged == SelectSeq(devices, IsFlagged)
        categorized == [i \in 1..Len(flagged) |-> Categorize(flagged[i])]
    IN  [flagged_count |-> Len(categorized),
         total_devices |-> Len(devices),
         devices |-> categorized]

NoReport == [flagged_count |-> 0, total_devices |-> 0, devices |-> <<>>]

(***************************************************************************)
(* Lines of arp -a output the model feeds the parser                       *)
(***************************************************************************)
Ip1 == <<"1","9","2",".","1","6","8",".","1",".","1">>

Ip2 == <<"1","9","2",".","1","6","8",".","1",".","2">>

Ip5 == <<"1","9","2",".","1","6","8",".","1",".","5">>

Ip9 == <<"1","9","2",".","1","6","8",".","1",".","9">>

Ip10 == <<"1","9","2",".","1","6","8",".","1",".","1","0">>

IpMulticast224 == <<"2","2","4",".","0",".","0",".","2","5","1">>

IpMulticast239 == <<"2","3","9",".","2","5","5",".","2","5","5",".","2","5","0">>

IpLinkLocal == <<"1","6","9",".","2","5","4",".","7",".","7">>

IpVmBridge == <<"1","9","2",".","1","6","8",".","6","4",".","1">>

MacApple == <<"a","c",":","d","e",":","4","8",":","0",":","1","1",":","2","2">>

MacAppleUpper == <<"A","C",":","D","E",":","4","8",":","0",":","1","1",":","2","2">>

\* 00:8a:76:01:02:03 as arp -a of macOS prints it, without leading zeros
MacAppleShort == <<"0",":","8","a",":","7","6",":","1",":","2",":","3">>

\* bc:74:4b is China Mobile in MAC_VENDORS
MacChinaMobile == <<"b","c",":","7","4",":","4","b",":","1",":","2",":","3">>

\* a universally administered address whose prefix is not in MAC_VENDORS
MacNotListed == <<"1","0",":","2","0",":","3","0",":","4","0",":","5","0",":","6","0">>

MacRouter == <<"8","8",":","d","e",":","7","c",":","e","2",":","c","c",":","c","0">>

MacXiaomi == <<"e","4",":","2","4",":","6","c",":","1",":","2",":","3">>

MacPrivate == <<"a","2",":","1","1",":","2","2",":","3","3",":","4","4",":","5","5">>

MacMulticast == <<"1",":","0",":","5","e",":","0",":","0",":","f","b">>

En0 == <<"e","n","0">>

En1 == <<"e","n","1">>

Eth0 == <<"e","t","h","0">>

Bridge100 == <<"b","r","i","d","g","e","1","0","0">>

IfScopeEthernet == <<" ","i","f","s","c","o","p","e"," ","[","e","t","h","e","r","n","e","t","]">>

HeaderText == <<"A","d","d","r","e","s","s"," ","H","W","t","y","p","e"," ","H","W","a","d","d","r","e","s","s">>

\* macOS format: ? (192.168.1.1) at 88:de:7c:e2:cc:c0 on en0 ifscope [ethernet]
BsdLine(ip, mac, iface, tail) ==
    <<"?"," ","(">> \o ip \o <<")"," ","a","t"," ">> \o mac
        \o <<" ","o","n"," ">> \o iface \o tail

\* Linux format: ? (192.168.1.1) at 88:de:7c:e2:cc:c0 [ether] on eth0
LinuxLine(ip, mac, iface) ==
    <<"?"," ","(">> \o ip \o <<")"," ","a","t"," ">> \o mac
        \o <<" ","[","e","t","h","e","r","]"," ","o","n"," ">> \o iface

Bsd(ip, mac, iface, tail) ==
    [form |-> "bsd", ip |-> ip, mac |-> mac, iface |-> iface,
     text |-> BsdLine(ip, mac, iface, tail)]

Linux(ip, mac, iface) ==
    [form |-> "linux", ip |-> ip, mac |-> mac, iface |-> iface,
     text |-> LinuxLine(ip, mac, iface)]

\* the lines the model feeds the parser, each with the fields it was written from
ArpLines ==
    { Bsd(Ip10, MacApple, En0, IfScopeEthernet),
      Bsd(Ip9, MacAppleUpper, En1, <<>>),
      Linux(Ip1, MacRouter, Eth0),
      Bsd(Ip1, MacRouter, En0, <<>>),
      Bsd(IpMulticast224, MacMulticast, En0, IfScopeEthernet),
      Bsd(IpMulticast239, MacMulticast, En0, <<>>),
      Bsd(Ip5, IncompleteMarker, En0, IfScopeEthernet),
      Bsd(IpLinkLocal, MacXiaomi, En0, <<>>),
      Bsd(Ip2, MacXiaomi, En1, <<>>),
      Bsd(IpVmBridge, MacPrivate, Bridge100, <<>>),
      Bsd(Ip9, MacPrivate, En0, <<>>),
      Bsd(Ip5, MacAppleShort, En0, <<>>),
      Bsd(Ip2, MacChinaMobile, En0, <<>>),
      Bsd(Ip5, MacNotListed, En1, <<>>),
      [form |-> "other", ip |-> <<>>, mac |-> <<>>, iface |-> <<>>, text |-> HeaderText] }

Lines == {d.text : d \in ArpLines}

LineInfo(text) == CHOOSE d \in ArpLines : d.text = text

MaxLines == 3

RECURSIVE SeqsUpTo(_, _)
SeqsUpTo(S, n) ==
    IF n = 0 THEN {<<>>}
    ELSE LET shorter == SeqsUpTo(S, n - 1)
         IN  shorter \cup {Append(q, x) : q \in {t \in shorter : Len(t) = n - 1}, x \in S}

\* the stdout of arp -a: every line ends with a newline
RECURSIVE TextOf(_)
TextOf(ls) ==
    IF ls = <<>> THEN <<>>
    ELSE Head(ls) \o <<"\n">> \o TextOf(Tail(ls))

(***************************************************************************)
(* State                                                                   *)
(***************************************************************************)
MaxSlots == 2

Slots == 1..MaxSlots

NoResponse ==
    [kind |-> "none", isError |-> FALSE, devices |-> <<>>, newDevices |-> <<>>,
     removedDevices |-> <<>>, previousScanTime |-> 0, currentScanTime |-> 0,
     flagged |-> NoReport]

\* A tool call in flight.  id: its number; stdout, failed, readAt: what its arp -a
\* child gave and when.  History: hadDiscover, whether a discover had completed
\* when the call was received; sawBy, the writer of the stored list when the call
\* started its read of the address table.
Idle ==
    [pc |-> "idle", id |-> 0, tool |-> "none", refresh |-> FALSE, arg |-> <<>>,
     stdout |-> <<>>, failed |-> FALSE, readAt |-> 0,
     hadDiscover |-> FALSE, sawBy |-> 0]

\* The answer to a tool call: the call, its response and, as history, the stored
\* list it replaced (baseline), the writer of that list and the tool of that
\* writer (overBy, overTool) and the time that list was read (overReadAt).
Answer(rec, response, replaced) ==
    [call |-> [rec EXCEPT !.pc = "done"],
     response |-> response,
     replaced |-> replaced,
     baseline |-> IF replaced THEN lastScanResults ELSE <<>>,
     overBy |-> IF replaced THEN snapHist.by ELSE 0,
     overTool |-> IF replaced THEN snapHist.tool ELSE "none",
     overReadAt |-> IF replaced THEN snapHist.readAt ELSE 0]

NoAnswer ==
    [call |-> Idle, response |-> NoResponse, replaced |-> FALSE, baseline |-> <<>>,
     overBy |-> 0, overTool |-> "none", overReadAt |-> 0]

NoSweep ==
    [pc |-> "idle", owner |-> 0, i |-> 0, promises |-> <<>>, state |-> <<>>,
     batchStart |-> 0, batches |-> <<>>, failures |-> FALSE,
     endedLow |-> 0, endedHigh |-> 0]

NoScan ==
    [stage |-> "off", lines |-> <<>>, output |-> <<>>, entries |-> <<>>, devices |-> <<>>,
     report |-> NoReport]

InitServer ==
    /\ lastScanResults = <<>>
    /\ lastScanTime = 0
    /\ clock = 1
    /\ snapHist = [by |-> 0, tool |-> "none", readAt |-> 0, discovered |-> FALSE,
                   used |-> {}, lost |-> {}]
    /\ reqs = [r \in Slots |-> Idle]
    /\ answered = NoAnswer
    /\ arrived = 0
    /\ sweep = NoSweep

(***************************************************************************)
(* SpecScan: parseArpOutput and the aggregation on every text of at most   *)
(* MaxLines lines                                                          *)
(***************************************************************************)
InitScan ==
    /\ InitServer
    /\ scan \in {[stage |-> "input", lines |-> ls, output |-> TextOf(ls),
                  entries |-> <<>>, devices |-> <<>>, report |-> NoReport] :
                    ls \in SeqsUpTo(Lines, MaxLines)}

ScanParse ==
    /\ scan.stage = "input"
    /\ scan' = [scan EXCEPT !.stage = "parsed", !.entries = parseArpOutput(scan.output)]
    /\ UNCHANGED <<lastScanResults, lastScanTime, clock, snapHist, reqs, answered, arrived, sweep>>

ScanAggregate ==
    /\ scan.stage = "parsed"
    /\ scan' = [scan EXCEPT !.stage = "done", !.devices = DevicesOf(scan.entries, clock)]
    /\ UNCHANGED <<lastScanResults, lastScanTime, clock, snapHist, reqs, answered, arrived, sweep>>

\* homescan_flagged on the devices: the filter, the categories and the counts
ScanFlag ==
    /\ scan.stage = "done"
    /\ scan' = [scan EXCEPT !.stage = "flagged", !.report = FlaggedReport(scan.devices)]
    /\ UNCHANGED <<lastScanResults, lastScanTime, clock, snapHist, reqs, answered, arrived, sweep>>

NextScan == ScanParse \/ ScanAggregate \/ ScanFlag

SpecScan == InitScan /\ [][NextScan]_vars

(***************************************************************************)
(* The tool-call handler of index.ts.  A handler runs without interruption *)
(* from one await to the next; the children it spawns (arp -a, ping) run   *)
(* beside it and their results are delivered as later events.  The SDK     *)
(* server starts the handler of a request when the request arrives,        *)
(* whether or not an earlier handler is still waiting at an await.         *)
(***************************************************************************)
\* the stdout of arp -a the server may see
OutputTwo ==
    TextOf(<<BsdLine(Ip10, MacApple, En0, IfScopeEthernet), BsdLine(Ip1, MacRouter, En0, <<>>)>>)

\* later: one MAC under another IP and interface, one MAC gone, one new
OutputChanged ==
    TextOf(<<BsdLine(Ip9, MacAppleUpper, En1, <<>>), BsdLine(Ip2, MacXiaomi, En1, <<>>)>>)

OutputEmpty == <<>>

ArpOutputs == {OutputTwo, OutputChanged, OutputEmpty}

MaxRequests == 3

MaxSweepRequests == 1

\* the readings of the clock: it starts at 1 and every arp -a child advances it
Clock == 1..(MaxRequests + MaxSweepRequests + 1)

\* discoverDevices() on each stdout of ArpOutputs at each reading of the clock,
\* computed once: the parse of getArpTable, then the aggregation
Discovered ==
    [stdout \in ArpOutputs |->
        [now \in Clock |-> DevicesOf(parseArpOutput(stdout), now)]]

\* no handler is in the middle of the synchronous launch loop of pingSweep
JsFree == sweep.pc # "launching"

\* the slot a new tool call takes: the lowest one that is free
FreeSlot(r) == reqs[r].pc = "idle" /\ \A q \in Slots : q < r => reqs[q].pc # "idle"

SetReq(r, rec) == [reqs EXCEPT ![r] = rec]

\* discoverDevices -> getArpTable -> execAsync("arp -a"): the child is spawned
StartArp(rec) == [rec EXCEPT !.pc = "arp", !.sawBy = snapHist.by]

\* ReceiveDiscover calling pingSweep without awaiting it
ReceiveDiscoverNoAwait(r, refresh) ==
    /\ JsFree
    /\ FreeSlot(r)
    /\ LET rec == [Idle EXCEPT !.id = arrived + 1, !.tool = "homescan_discover",
                               !.refresh = refresh, !.hadDiscover = snapHist.discovered]
       IN  /\ reqs' = SetReq(r, StartArp(rec))
           /\ IF refresh
              THEN /\ sweep.pc \in {"idle", "returned", "threw"}
                   /\ sweep' = [NoSweep EXCEPT !.pc = "launching", !.owner = r, !.i = 1]
              ELSE UNCHANGED sweep
    /\ arrived' = arrived + 1
    /\ UNCHANGED <<lastScanResults, lastScanTime, clock, snapHist, answered, scan>>

\* case "homescan_discover", up to its first await
ReceiveDiscover(r, refresh) ==
    /\ JsFree
    /\ FreeSlot(r)
    /\ LET rec == [Idle EXCEPT !.id = arrived + 1, !.tool = "homescan_discover",
                               !.refresh = refresh, !.hadDiscover = snapHist.discovered]
       IN  IF refresh
           THEN /\ sweep.pc \in {"idle", "returned", "threw"}
                /\ sweep' = [NoSweep EXCEPT !.pc = "launching", !.owner = r, !.i = 1]
                /\ reqs' = SetReq(r, [rec EXCEPT !.pc = "sweeping"])
           ELSE /\ reqs' = SetReq(r, StartArp(rec))
                /\ UNCHANGED sweep
    /\ arrived' = arrived + 1
    /\ UNCHANGED <<lastScanResults, lastScanTime, clock, snapHist, answered, scan>>

\* ReceiveDiff testing the stored list for emptiness instead of lastScanTime for null
ReceiveDiffTestsList(r) ==
    /\ JsFree
    /\ FreeSlot(r)
    /\ LET rec == [Idle EXCEPT !.id = arrived + 1, !.tool = "homescan_diff",
                               !.hadDiscover = snapHist.discovered]
       IN  IF lastScanResults = <<>>
           THEN /\ answered' = Answer(rec, [NoResponse EXCEPT !.kind = "noBaseline"], FALSE)
                /\ UNCHANGED reqs
           ELSE /\ reqs' = SetReq(r, StartArp(rec))
                /\ UNCHANGED answered
    /\ arrived' = arrived + 1
    /\ UNCHANGED <<lastScanResults, lastScanTime, clock, snapHist, sweep, scan>>

\* case "homescan_diff", up to its first await or its early return
ReceiveDiff(r) ==
    /\ JsFree
    /\ FreeSlot(r)
    /\ LET rec == [Idle EXCEPT !.id = arrived + 1, !.tool = "homescan_diff",
                               !.hadDiscover = snapHist.discovered]
       IN  IF lastScanTime = 0
           THEN /\ answered' = Answer(rec, [NoResponse EXCEPT !.kind = "noBaseline"], FALSE)
                /\ UNCHANGED reqs
           ELSE /\ reqs' = SetReq(r, StartArp(rec))
                /\ UNCHANGED answered
    /\ arrived' = arrived + 1
    /\ UNCHANGED <<lastScanResults, lastScanTime, clock, snapHist, sweep, scan>>

\* the arp -a child runs: it reads the table and exits with its text, or fails
ArpExit(r, out, ok) ==
    /\ reqs[r].pc = "arp"
    /\ clock' = clock + 1
    /\ reqs' = SetReq(r, [reqs[r] EXCEPT !.pc = "arpDone",
                                         !.stdout = IF ok THEN out ELSE <<>>,
                                         !.failed = ~ok,
                                         !.readAt = clock + 1])
    /\ UNCHANGED <<lastScanResults, lastScanTime, snapHist, answered, arrived, sweep, scan>>

MacsOf(devices) == {devices[i].mac : i \in DOMAIN devices}

\* NewDevices comparing by ip instead of mac
NewDevicesByIp(currentDevices, previous) ==
    LET previousIps == {previous[i].ip : i \in DOMAIN previous}
    IN  SelectSeq(currentDevices, LAMBDA d : d.ip \notin previousIps)

\* currentDevices.filter((d) => !previousMacs.has(d.mac))
NewDevices(currentDevices, previous) ==
    LET previousMacs == MacsOf(previous)
    IN  SelectSeq(currentDevices, LAMBDA d : d.mac \notin previousMacs)

\* lastScanResults.filter((d) => !currentMacs.has(d.mac))
RemovedDevices(currentDevices, previous) ==
    LET currentMacs == MacsOf(currentDevices)
    IN  SelectSeq(previous, LAMBDA d : d.mac \notin currentMacs)

\* StoreScan that advances the time and keeps the old list
StoreScanKeepsList(devices, now) == [results |-> lastScanResults, time |-> now]

\* lastScanResults = devices; lastScanTime = new Date()
StoreScan(devices, now) == [results |-> devices, time |-> now]

\* the catch of the handler
ErrorResponse == [NoResponse EXCEPT !.kind = "error", !.isError = TRUE]

\* the response of case "homescan_discover"
DiscoverResponse(devices, now) ==
    [NoResponse EXCEPT !.kind = "discover", !.devices = devices, !.currentScanTime = now]

\* DiffResponse taking previousScanTime after lastScanTime was assigned
DiffResponsePreviousAfterStore(currentDevices, now) ==
    [NoResponse EXCEPT !.kind = "diff",
                       !.devices = currentDevices,
                       !.newDevices = NewDevices(currentDevices, lastScanResults),
                       !.removedDevices = RemovedDevices(currentDevices, lastScanResults),
                       !.previousScanTime = now,
                       !.currentScanTime = now]

\* the response of case "homescan_diff"
DiffResponse(currentDevices, now) ==
    [NoResponse EXCEPT !.kind = "diff",
                       !.devices = currentDevices,
                       !.newDevices = NewDevices(currentDevices, lastScanResults),
                       !.removedDevices = RemovedDevices(currentDevices, lastScanResults),
                       !.previousScanTime = lastScanTime,
                       !.currentScanTime = now]

\* the tools that store the scan they ran
StoringTools == {"homescan_discover", "homescan_diff"}

\* the response of homescan_device, homescan_report, homescan_export and
\* homescan_flagged for the call rec on the devices of its scan
ReadResponse(rec, devices) ==
    CASE rec.tool = "homescan_device" ->
           LET found == SelectSeq(devices, LAMBDA d : d.ip = rec.arg)
           IN  IF found = <<>>
               THEN [NoResponse EXCEPT !.kind = "deviceNotFound"]
               ELSE [NoResponse EXCEPT !.kind = "device", !.devices = <<Head(found)>>]
      [] rec.tool = "homescan_report" ->
           [NoResponse EXCEPT !.kind = "report", !.devices = devices]
      [] rec.tool = "homescan_export" ->
           [NoResponse EXCEPT !.kind = IF rec.arg = "json" THEN "exportJson"
                                       ELSE "exportMarkdown",
                              !.devices = devices]
      [] rec.tool = "homescan_flagged" ->
           [NoResponse EXCEPT !.kind = "flagged", !.flagged = FlaggedReport(devices)]

\* Resume storing an empty scan before it reports the failure of arp -a
ResumeStoresOnError(r) ==
    /\ JsFree
    /\ reqs[r].pc = "arpDone"
    /\ LET rec == reqs[r]
           devices == Discovered[rec.stdout][clock]
       IN  IF rec.failed
           THEN /\ answered' = Answer(rec, ErrorResponse, FALSE)
                /\ lastScanResults' = <<>>
                /\ lastScanTime' = clock
                /\ UNCHANGED snapHist
           ELSE IF rec.tool \in StoringTools
           THEN /\ lastScanResults' = StoreScan(devices, clock).results
                /\ lastScanTime' = StoreScan(devices, clock).time
                /\ snapHist' = [by |-> rec.id, tool |-> rec.tool, readAt |-> rec.readAt,
                                discovered |-> snapHist.discovered
                                                 \/ rec.tool = "homescan_discover",
                                used |-> IF rec.tool = "homescan_diff"
                                         THEN snapHist.used \cup {snapHist.by}
                                         ELSE snapHist.used,
                                lost |-> IF rec.tool = "homescan_diff" \/ snapHist.by = 0
                                         THEN snapHist.lost
                                         ELSE snapHist.lost \cup {snapHist.by}]
                /\ answered' = Answer(rec,
                                      IF rec.tool = "homescan_discover"
                                      THEN DiscoverResponse(devices, clock)
                                      ELSE DiffResponse(devices, clock),
                                      TRUE)
           ELSE /\ answered' = Answer(rec, ReadResponse(rec, devices), FALSE)
                /\ UNCHANGED <<lastScanResults, lastScanTime, snapHist>>
    /\ reqs' = SetReq(r, Idle)
    /\ UNCHANGED <<clock, arrived, sweep, scan>>

\* Resume in which homescan_report stores the scan it ran
ResumeReportStores(r) ==
    /\ JsFree
    /\ reqs[r].pc = "arpDone"
    /\ LET rec == reqs[r]
           devices == Discovered[rec.stdout][clock]
       IN  IF rec.failed
           THEN /\ answered' = Answer(rec, ErrorResponse, FALSE)
                /\ UNCHANGED <<lastScanResults, lastScanTime, snapHist>>
           ELSE IF rec.tool \in StoringTools
           THEN /\ lastScanResults' = StoreScan(devices, clock).results
                /\ lastScanTime' = StoreScan(devices, clock).time
                /\ snapHist' = [by |-> rec.id, tool |-> rec.tool, readAt |-> rec.readAt,
                                discovered |-> snapHist.discovered
                                                 \/ rec.tool = "homescan_discover",
                                used |-> IF rec.tool = "homescan_diff"
                                         THEN snapHist.used \cup {snapHist.by}
                                         ELSE snapHist.used,
                                lost |-> IF rec.tool = "homescan_diff" \/ snapHist.by = 0
                                         THEN snapHist.lost
                                         ELSE snapHist.lost \cup {snapHist.by}]
                /\ answered' = Answer(rec,
                                      IF rec.tool = "homescan_discover"
                                      THEN DiscoverResponse(devices, clock)
                                      ELSE DiffResponse(devices, clock),
                                      TRUE)
           ELSE /\ answered' = Answer(rec, ReadResponse(rec, devices), FALSE)
                /\ lastScanResults' = IF rec.tool = "homescan_report" THEN devices
                                      ELSE lastScanResults
                /\ UNCHANGED <<lastScanTime, snapHist>>
    /\ reqs' = SetReq(r, Idle)
    /\ UNCHANGED <<clock, arrived, sweep, scan>>

\* the handler after await discoverDevices(): the rest of getArpTable and of
\* discoverDevices, then the rest of the case, and the response is sent
Resume(r) ==
    /\ JsFree
    /\ reqs[r].pc = "arpDone"
    /\ LET rec == reqs[r]
           devices == Discovered[rec.stdout][clock]
       IN  IF rec.failed
           THEN /\ answered' = Answer(rec, ErrorResponse, FALSE)
                /\ UNCHANGED <<lastScanResults, lastScanTime, snapHist>>
           ELSE IF rec.tool \in StoringTools
           THEN /\ lastScanResults' = StoreScan(devices, clock).results
                /\ lastScanTime' = StoreScan(devices, clock).time
                /\ snapHist' = [by |-> rec.id, tool |-> rec.tool, readAt |-> rec.readAt,
                                discovered |-> snapHist.discovered
                                                 \/ rec.tool = "homescan_discover",
                                used |-> IF rec.tool = "homescan_diff"
                                         THEN snapHist.used \cup {snapHist.by}
                                         ELSE snapHist.used,
                                lost |-> IF rec.tool = "homescan_diff" \/ snapHist.by = 0
                                         THEN snapHist.lost
                                         ELSE snapHist.lost \cup {snapHist.by}]
                /\ answered' = Answer(rec,
                                      IF rec.tool = "homescan_discover"
                                      THEN DiscoverResponse(devices, clock)
                                      ELSE DiffResponse(devices, clock),
                                      TRUE)
           ELSE /\ answered' = Answer(rec, ReadResponse(rec, devices), FALSE)
                /\ UNCHANGED <<lastScanResults, lastScanTime, snapHist>>
    /\ reqs' = SetReq(r, Idle)
    /\ UNCHANGED <<clock, arrived, sweep, scan>>

Next ==
    \E r \in Slots :
        \/ arrived < MaxRequests /\ ReceiveDiscover(r, FALSE)
        \/ arrived < MaxRequests /\ ReceiveDiff(r)
        \/ \E out \in ArpOutputs, ok \in BOOLEAN : ArpExit(r, out, ok)
        \/ Resume(r)

Init == InitServer /\ scan = NoScan

Spec == Init /\ [][Next]_vars

(***************************************************************************)
(* SpecTools: the handler with all seven tools                             *)
(***************************************************************************)
MaxToolRequests == 2

\* the ip arguments of homescan_device: one that OutputTwo lists, one that no
\* output lists
DeviceArgs == {Ip10, Ip5}

\* the format arguments of homescan_export; anything but "json" is markdown
ExportArgs == {"json", "markdown"}

\* the mac arguments of homescan_mac_lookup
LookupArgs == {MacAppleUpper, MacPrivate, MacNotListed}

\* case "homescan_device", "homescan_report", "homescan_export" and
\* "homescan_flagged", each up to its await of discoverDevices()
ReceiveRead(r, tool, arg) ==
    /\ JsFree
    /\ FreeSlot(r)
    /\ reqs' = SetReq(r, StartArp([Idle EXCEPT !.id = arrived + 1, !.tool = tool,
                                               !.arg = arg,
                                               !.hadDiscover = snapHist.discovered]))
    /\ arrived' = arrived + 1
    /\ UNCHANGED <<lastScanResults, lastScanTime, clock, snapHist, answered, sweep, scan>>

ReceiveDevice(r, ip) == ReceiveRead(r, "homescan_device", ip)

ReceiveReport(r) == ReceiveRead(r, "homescan_report", <<>>)

ReceiveExport(r, format) == ReceiveRead(r, "homescan_export", format)

ReceiveFlagged(r) == ReceiveRead(r, "homescan_flagged", <<>>)

\* case "homescan_mac_lookup": no await, the answer is given at once
MacLookup(mac) ==
    /\ JsFree
    /\ LET lower == toLowerCase(mac)
           vendor == lookupMacVendor(lower)
           rec == [Idle EXCEPT !.id = arrived + 1, !.tool = "homescan_mac_lookup",
                               !.arg = lower, !.hadDiscover = snapHist.discovered]
       IN  answered' = Answer(rec,
                              [NoResponse EXCEPT
                                  !.kind = "macLookup",
                                  !.devices = <<[mac |-> lower,
                                                 manufacturer |-> IF vendor # <<>> THEN vendor
                                                                  ELSE Unknown,
                                                 is_private_mac |-> isPrivateMac(lower)]>>],
                              FALSE)
    /\ arrived' = arrived + 1
    /\ UNCHANGED <<lastScanResults, lastScanTime, clock, snapHist, reqs, sweep, scan>>

NextTools ==
    \/ \E r \in Slots :
          \/ arrived < MaxToolRequests /\ ReceiveDiscover(r, FALSE)
          \/ arrived < MaxToolRequests /\ ReceiveDiff(r)
          \/ \E ip \in DeviceArgs : arrived < MaxToolRequests /\ ReceiveDevice(r, ip)
          \/ arrived < MaxToolRequests /\ ReceiveReport(r)
          \/ \E format \in ExportArgs : arrived < MaxToolRequests /\ ReceiveExport(r, format)
          \/ arrived < MaxToolRequests /\ ReceiveFlagged(r)
          \/ \E out \in ArpOutputs, ok \in BOOLEAN : ArpExit(r, out, ok)
          \/ Resume(r)
    \/ \E mac \in LookupArgs : arrived < MaxToolRequests /\ MacLookup(mac)

SpecTools == Init /\ [][NextTools]_vars

(***************************************************************************)
(* pingSweep.  The launch loop is synchronous: nothing else runs, and no   *)
(* promise settles, until the handler reaches its first await.             *)
(***************************************************************************)
FirstHost == 1

LastHost == 254

batchSize == 50

MaxOutOfOrder == 10

\* how one ping child can end
ProbeOutcomes == {"success", "timeout", "unreachable", "launchError"}

\* WrappedProbe without the catch: a failed ping rejects the promise
WrappedProbeNoCatch(outcome) == IF outcome = "success" THEN "fulfilled" ELSE "rejected"

\* execAsync(...).then(() => {}).catch(() => {}): the promise kept in promises
WrappedProbe(outcome) == "fulfilled"

\* for (let i = 1; i <= 254; i++) promises.push(execAsync(`ping ... ${subnet}.${i}`) ...)
Launch ==
    /\ sweep.pc = "launching"
    /\ sweep.i <= LastHost
    /\ sweep' = [sweep EXCEPT !.promises = Append(@, sweep.i),
                              !.state = Append(@, "running"),
                              !.i = @ + 1]
    /\ UNCHANGED <<lastScanResults, lastScanTime, clock, snapHist, reqs, answered, arrived, scan>>

Min(a, b) == IF a < b THEN a ELSE b

\* BatchSlice with the end of the slice one too low
BatchSliceShort(start) == (start + 1)..Min(start + batchSize - 1, Len(sweep.promises))

\* the indices of promises.slice(start, start + batchSize), 1-based
BatchSlice(start) == (start + 1)..Min(start + batchSize, Len(sweep.promises))

\* the launch loop has ended; the batch loop awaits its first Promise.all
AwaitFirstBatch ==
    /\ sweep.pc = "launching"
    /\ sweep.i > LastHost
    /\ 0 < Len(sweep.promises)
    /\ sweep' = [sweep EXCEPT !.pc = "awaiting",
                              !.batchStart = 0,
                              !.batches = <<Cardinality(BatchSlice(0))>>]
    /\ UNCHANGED <<lastScanResults, lastScanTime, clock, snapHist, reqs, answered, arrived, scan>>

\* The ping children end in any order, and the endings of two children commute.
\* The model follows the orders in which the next to end is the lowest host still
\* probed or, at most MaxOutOfOrder times in a sweep, the highest one; endedLow and
\* endedHigh count the children that ended at either end.
SettleCandidates ==
    {j \in {sweep.endedLow + 1} \cup
            (IF sweep.endedHigh < MaxOutOfOrder
             THEN {Len(sweep.state) - sweep.endedHigh} ELSE {}) :
        j \in DOMAIN sweep.state /\ sweep.state[j] = "running"}

\* a ping child ends and its promise settles
Settle(j, outcome) ==
    /\ sweep.pc = "awaiting"
    /\ j \in SettleCandidates
    /\ sweep' = [sweep EXCEPT !.state[j] = WrappedProbe(outcome),
                              !.failures = @ \/ outcome # "success",
                              !.endedLow = IF j = sweep.endedLow + 1 THEN @ + 1 ELSE @,
                              !.endedHigh = IF j = sweep.endedLow + 1 THEN @ ELSE @ + 1]
    /\ UNCHANGED <<lastScanResults, lastScanTime, clock, snapHist, reqs, answered, arrived, scan>>

\* await Promise.all(slice) ends: it throws at the first rejection in the slice,
\* and returns once every promise of the slice is fulfilled; then the next batch is
\* awaited, or pingSweep returns and the handler goes on to discoverDevices
BatchResume ==
    /\ sweep.pc = "awaiting"
    /\ LET slice == BatchSlice(sweep.batchStart)
           next == sweep.batchStart + batchSize
           owner == sweep.owner
       IN  /\ \/ \E j \in slice : sweep.state[j] = "rejected"
              \/ \A j \in slice : sweep.state[j] = "fulfilled"
           /\ IF \E j \in slice : sweep.state[j] = "rejected"
              THEN /\ sweep' = [sweep EXCEPT !.pc = "threw"]
                   /\ reqs' = SetReq(owner, Idle)
                   /\ answered' = Answer(reqs[owner], ErrorResponse, FALSE)
              ELSE IF next < Len(sweep.promises)
              THEN /\ sweep' = [sweep EXCEPT !.batchStart = next,
                                             !.batches = Append(@, Cardinality(BatchSlice(next)))]
                   /\ UNCHANGED <<reqs, answered>>
              ELSE /\ sweep' = [sweep EXCEPT !.pc = "returned"]
                   /\ reqs' = SetReq(owner, StartArp(reqs[owner]))
                   /\ UNCHANGED answered
    /\ UNCHANGED <<lastScanResults, lastScanTime, clock, snapHist, arrived, scan>>

\* one homescan_discover at a time, with or without refresh
NextSweep ==
    \/ \E refresh \in BOOLEAN : arrived < MaxSweepRequests /\ ReceiveDiscover(1, refresh)
    \/ Launch
    \/ AwaitFirstBatch
    \/ \E j \in SettleCandidates, outcome \in ProbeOutcomes : Settle(j, outcome)
    \/ BatchResume
    \/ \E out \in ArpOutputs, ok \in BOOLEAN : ArpExit(1, out, ok)
    \/ Resume(1)

SpecSweep == Init /\ [][NextSweep]_vars

(***************************************************************************)
(* Claims about parseArpOutput and the aggregation, under SpecScan         *)
(***************************************************************************)
Parsed == scan.stage \in {"parsed", "done"}

\* a line of a known form that is neither multicast nor incomplete
WellFormed(d) ==
    /\ d.form \in {"bsd", "linux"}
    /\ d.mac # IncompleteMarker
    /\ ~startsWith(d.ip, Multicast224)
    /\ ~startsWith(d.ip, Multicast239)

ExpectedEntry(d) ==
    [ip |-> d.ip, mac |-> toLowerCase(d.mac), interface |-> d.iface, complete |-> TRUE]

RECURSIVE ExpectedEntries(_)
ExpectedEntries(ls) ==
    IF ls = <<>> THEN <<>>
    ELSE (IF WellFormed(LineInfo(Head(ls))) THEN <<ExpectedEntry(LineInfo(Head(ls)))>> ELSE <<>>)
         \o ExpectedEntries(Tail(ls))

\* C8: every BSD/macOS line and every Linux line ([ether] between the MAC and
\* "on") that is neither multicast nor incomplete yields one entry with the
\* line's IP, its MAC in lower case and its interface name.
C8_BothFormatsRecognized ==
    Parsed => scan.entries = ExpectedEntries(scan.lines)

\* C9: no parsed entry has an ip starting with 224. or 239., none has the
\* (incomplete) marker as its mac, every entry is complete, and there are no
\* more entries than lines of a known form (a line of no known form yields none).
C9_NoMulticastNoIncomplete ==
    Parsed =>
        /\ \A i \in DOMAIN scan.entries :
              /\ ~startsWith(scan.entries[i].ip, Multicast224)
              /\ ~startsWith(scan.entries[i].ip, Multicast239)
              /\ scan.entries[i].mac # IncompleteMarker
              /\ scan.entries[i].complete = TRUE
        /\ Len(scan.entries)
              <= Cardinality({i \in DOMAIN scan.lines : WellFormed(LineInfo(scan.lines[i]))})

\* a parsed text holding a multicast line, an incomplete line and a line of no
\* known form beside nothing else, or a multicast and an incomplete line beside
\* a line that did yield an entry
C9_Witness ==
    /\ Parsed
    /\ \E i \in DOMAIN scan.lines : startsWith(LineInfo(scan.lines[i]).ip, Multicast239)
    /\ \E i \in DOMAIN scan.lines : LineInfo(scan.lines[i]).mac = IncompleteMarker
    /\ \/ scan.entries # <<>>
       \/ \E i \in DOMAIN scan.lines : LineInfo(scan.lines[i]).form = "other"

\* the first entry, in parse order, that carries mac
FirstWithMac(entries, mac) ==
    entries[CHOOSE i \in DOMAIN entries :
                /\ entries[i].mac = mac
                /\ \A j \in 1..(i - 1) : entries[j].mac # mac]

\* C10: the macs of a result of discoverDevices are pairwise distinct, and
\* entries sharing a MAC while differing in IP or interface reduce to exactly
\* one Device, carrying the ip of the first of them in parse order.
C10_DedupFirstWins ==
    scan.stage = "done" =>
        /\ \A i, j \in DOMAIN scan.devices :
              i # j => scan.devices[i].mac # scan.devices[j].mac
        /\ \A i, j \in DOMAIN scan.entries :
              (/\ i < j
               /\ scan.entries[i].mac = scan.entries[j].mac
               /\ \/ scan.entries[i].ip # scan.entries[j].ip
                  \/ scan.entries[i].interface # scan.entries[j].interface)
              => /\ Cardinality({k \in DOMAIN scan.devices :
                                    scan.devices[k].mac = scan.entries[i].mac}) = 1
                 /\ \A k \in DOMAIN scan.devices :
                       scan.devices[k].mac = scan.entries[i].mac
                       => scan.devices[k].ip = FirstWithMac(scan.entries, scan.entries[i].mac).ip

\* the octets of ip a are at most those of ip b, compared left to right
RECURSIVE TupleLeq(_, _, _)
TupleLeq(x, y, i) ==
    IF i > 4 THEN TRUE
    ELSE IF x[i] < y[i] THEN TRUE
    ELSE IF x[i] > y[i] THEN FALSE
    ELSE TupleLeq(x, y, i + 1)

\* C11: in every result of discoverDevices each device's ip is, as a tuple of
\* four integers, at most that of the device after it, and no device has an ip
\* that starts with 169.254. or 192.168.64.
C11_SortedByOctets ==
    scan.stage = "done" =>
        /\ \A i \in 1..(Len(scan.devices) - 1) :
              /\ Len(Octets(scan.devices[i].ip)) = 4
              /\ Len(Octets(scan.devices[i + 1].ip)) = 4
              /\ TupleLeq(Octets(scan.devices[i].ip), Octets(scan.devices[i + 1].ip), 1)
        /\ \A i \in DOMAIN scan.devices :
              /\ ~startsWith(scan.devices[i].ip, LinkLocalPrefix)
              /\ ~startsWith(scan.devices[i].ip, VmBridgePrefix)

\* arp -a listed 192.168.1.10 before 192.168.1.9 and a link-local address, and
\* the result has 192.168.1.9 right before 192.168.1.10 and no third device
C11_Witness ==
    /\ scan.stage = "done"
    /\ Len(scan.entries) = 3
    /\ scan.entries[1].ip = Ip10
    /\ \E i \in DOMAIN scan.entries : startsWith(scan.entries[i].ip, LinkLocalPrefix)
    /\ Len(scan.devices) = 2
    /\ scan.devices[1].ip = Ip9
    /\ scan.devices[2].ip = Ip10

\* an octet of a mac written with two hex characters
TwoHex(octet) == IF Len(octet) = 1 THEN <<"0">> \o octet ELSE octet

\* the first three octets of a mac, lower case, each with two hex characters
OuiOf(mac) ==
    LET octets == split(toLowerCase(mac), ":")
    IN  TwoHex(octets[1]) \o <<":">> \o TwoHex(octets[2]) \o <<":">> \o TwoHex(octets[3])

\* the manufacturer the three tiers give a mac
ThreeTier(mac) ==
    IF \E e \in MAC_VENDORS : e.prefix = OuiOf(mac)
    THEN (CHOOSE e \in MAC_VENDORS : e.prefix = OuiOf(mac)).vendor
    ELSE IF OuiOf(mac)[2] \in {"2", "6", "a", "e"} THEN PrivateRandomized
    ELSE Unknown

\* C12: every device of a result of discoverDevices has the manufacturer the
\* vendor table gives the first three octets of its mac when the table has them,
\* otherwise Private/Randomized MAC when the second hex character of the mac is
\* 2, 6, a or e, otherwise Unknown; it is never absent.
C12_ManufacturerThreeTier ==
    scan.stage = "done" =>
        \A i \in DOMAIN scan.devices :
            /\ scan.devices[i].manufacturer # <<>>
            /\ scan.devices[i].manufacturer = ThreeTier(scan.devices[i].mac)

\* the risk the four rules give a manufacturer, in their order; "none" when no
\* rule matches
RiskByRule(manufacturer) ==
    IF includes(manufacturer, Xiaomi) THEN "MEDIUM"
    ELSE IF includes(manufacturer, China) THEN "HIGH"
    ELSE IF manufacturer = PrivateRandomized THEN "LOW"
    ELSE IF manufacturer = Unknown THEN "MEDIUM"
    ELSE "none"

\* C13: the devices homescan_flagged reports are, in their order, exactly the
\* devices whose manufacturer matches one of the four rules, each with the risk
\* of the first rule it matches, and flagged_count is their number.
C13_FlaggedByFirstRule ==
    scan.stage = "flagged" =>
        LET matching == SelectSeq(scan.devices, LAMBDA d : RiskByRule(d.manufacturer) # "none")
            reported == scan.report.devices
        IN  /\ Len(reported) = Len(matching)
            /\ \A i \in DOMAIN reported :
                  /\ reported[i].device = matching[i]
                  /\ reported[i].risk_level = RiskByRule(matching[i].manufacturer)
            /\ scan.report.flagged_count = Len(matching)
            /\ scan.report.total_devices = Len(scan.devices)

\* three devices were classified: one rated HIGH, one rated LOW, one not flagged
C13_Witness ==
    /\ scan.stage = "flagged"
    /\ scan.report.total_devices = 3
    /\ scan.report.flagged_count = 2
    /\ \E i \in DOMAIN scan.report.devices : scan.report.devices[i].risk_level = "HIGH"
    /\ \E i \in DOMAIN scan.report.devices : scan.report.devices[i].risk_level = "LOW"

(***************************************************************************)
(* Claims about the stored scan and homescan_diff, under Spec              *)
(***************************************************************************)
\* C4: between the moment a discover or diff request starts its read of the
\* address table and the moment it replaces the stored scan no other request
\* replaces it, and the list it stores was not read earlier than the list it
\* overwrites.
C4_ScanAndReplaceAtomic ==
    answered.replaced =>
        /\ answered.overBy = answered.call.sawBy
        /\ answered.call.readAt >= answered.overReadAt

\* the last answer is that of a diff that found no baseline
NoBaselineAnswer == answered.response.kind = "noBaseline"

\* C5 without the kind of the outcome: a diff answers "no baseline" exactly
\* when no discover had completed when it was received, and then runs no scan
\* and stores nothing; the baseline is absent exactly as long as no discover
\* has completed.
BaselineLifecycle ==
    /\ (lastScanTime = 0) <=> ~snapHist.discovered
    /\ ~snapHist.discovered => lastScanResults = <<>> /\ snapHist.by = 0
    /\ \A r \in Slots : reqs[r].tool = "homescan_diff" => reqs[r].hadDiscover
    /\ answered.call.tool = "homescan_diff" =>
          /\ NoBaselineAnswer <=> ~answered.call.hadDiscover
          /\ NoBaselineAnswer => answered.call.readAt = 0 /\ ~answered.replaced
    /\ NoBaselineAnswer => answered.call.tool = "homescan_diff"

Elems(seq) == {seq[i] : i \in DOMAIN seq}

NoRepeats(seq) == Cardinality(Elems(seq)) = Len(seq)

\* C6: newDevices are exactly the current devices whose mac is the mac of no
\* previous device, removedDevices exactly the previous devices whose mac is
\* the mac of no current device; the ip plays no part.
C6_DiffByMac ==
    answered.response.kind = "diff" =>
        LET P == answered.baseline
            C == answered.response.devices
            new == answered.response.newDevices
            removed == answered.response.removedDevices
        IN  /\ Elems(new) = {c \in Elems(C) : \A q \in Elems(P) : q.mac # c.mac}
            /\ Elems(removed) = {q \in Elems(P) : \A c \in Elems(C) : q.mac # c.mac}
            /\ NoRepeats(new)
            /\ NoRepeats(removed)

\* a diff that reports a new and a removed device, and in which a mac is in
\* both lists under different ips and is reported neither new nor removed
C6_Witness ==
    /\ answered.response.kind = "diff"
    /\ answered.response.newDevices # <<>>
    /\ answered.response.removedDevices # <<>>
    /\ \E i \in DOMAIN answered.baseline, j \in DOMAIN answered.response.devices :
          /\ answered.baseline[i].mac = answered.response.devices[j].mac
          /\ answered.baseline[i].ip # answered.response.devices[j].ip
          /\ answered.baseline[i].mac \notin MacsOf(answered.response.newDevices)
          /\ answered.baseline[i].mac \notin MacsOf(answered.response.removedDevices)

\* the step in which the diff in slot r computes its answer
DiffAnswers(r) ==
    /\ reqs[r].pc = "arpDone"
    /\ reqs[r].tool = "homescan_diff"
    /\ reqs'[r].pc = "idle"
    /\ answered'.response.kind = "diff"

\* what the diff in slot r does when it answers, apart from the order of the old
\* and the new time: it stores the list it scanned and the current time, reports
\* the old and the new time, and reports no new and no removed device when its
\* list has the macs of the stored list
DiffStores(r) ==
    /\ answered'.call.id = reqs[r].id
    /\ lastScanResults' = answered'.response.devices
    /\ answered'.response.devices = DevicesOf(parseArpOutput(reqs[r].stdout), clock)
    /\ answered'.response.previousScanTime = lastScanTime
    /\ answered'.response.currentScanTime = lastScanTime'
    /\ lastScanTime' = clock
    /\ lastScanTime' >= reqs[r].readAt
    /\ (MacsOf(answered'.response.devices) = MacsOf(lastScanResults)
          => /\ answered'.response.newDevices = <<>>
             /\ answered'.response.removedDevices = <<>>)

InFlight == {j \in DOMAIN sweep.state : sweep.state[j] = "running"}

\* the batch of the j-th probe, counted from 0
BatchOf(j) == (j - 1) \div batchSize

\* C1: at most batchSize probes are in flight at any moment, and a probe of a
\* later batch is started only when every probe of the earlier batches has
\* settled.
C1_BoundedInFlight ==
    /\ Cardinality(InFlight) <= batchSize
    /\ \A j \in DOMAIN sweep.state :
          \A k \in InFlight : BatchOf(k) >= BatchOf(j)

IsPrefix(p, q) == Len(p) <= Len(q) /\ SubSeq(q, 1, Len(p)) = p

\* C2: the probes of a pingSweep call are those of the host suffixes 1..254 in
\* turn, each once; the batches awaited are five of 50 probes and one of 4; and
\* when the call returns, and the handler goes on, all 254 probes have settled.
C2_AllHostsProbedOnce ==
    /\ Len(sweep.promises) <= 254
    /\ \A j \in DOMAIN sweep.promises : sweep.promises[j] = j
    /\ IsPrefix(sweep.batches, <<50, 50, 50, 50, 50, 4>>)
    /\ sweep.pc = "returned" =>
          /\ Len(sweep.promises) = 254
          /\ sweep.batches = <<50, 50, 50, 50, 50, 4>>
          /\ InFlight = {}
    /\ \A r \in Slots :
          (reqs[r].refresh /\ reqs[r].pc \in {"arp", "arpDone"})
              => sweep.pc = "returned"

\* a sweep has returned in which pings failed and the final batch ended before
\* the first
C2_Witness ==
    /\ sweep.pc = "returned"
    /\ sweep.failures
    /\ sweep.endedHigh = MaxOutOfOrder
    /\ Len(sweep.state) = 254

\* C3: whatever the outcomes of the pings, pingSweep does not throw: no promise
\* of the sweep is rejected, the request is in the sweep exactly until the sweep
\* returns, an answered discover with refresh has run arp -a, and its answer is
\* an error only when arp -a failed.
C3_SweepNeverFails ==
    /\ sweep.pc # "threw"
    /\ \A j \in DOMAIN sweep.state : sweep.state[j] # "rejected"
    /\ \A r \in Slots :
          reqs[r].refresh =>
              /\ sweep.owner = r
              /\ reqs[r].pc = "sweeping" <=> sweep.pc \in {"launching", "awaiting"}
              /\ reqs[r].pc # "sweeping" <=> sweep.pc = "returned"
    /\ answered.call.refresh =>
          /\ answered.call.readAt > 0
          /\ answered.response.isError => answered.call.failed

\* a discover with refresh has answered with a device list after a sweep in
\* which pings failed
C3_Witness ==
    /\ answered.call.refresh
    /\ answered.response.kind = "discover"
    /\ answered.response.devices # <<>>
    /\ sweep.pc = "returned"
    /\ sweep.failures

\* the sweep of the request in flight has returned with every probe settled
SweepOver ==
    /\ sweep.pc = "returned"
    /\ Len(sweep.state) = LastHost
    /\ \A j \in DOMAIN sweep.state : sweep.state[j] # "running"

\* the stored scan changes only in the step in which a request whose arp -a has
\* exited stores the aggregation of what that arp -a printed
StoreFollowsAggregation ==
    (lastScanResults' # lastScanResults \/ lastScanTime' # lastScanTime) =>
        \E r \in Slots :
            /\ reqs[r].pc = "arpDone"
            /\ ~reqs[r].failed
            /\ reqs[r].readAt > 0
            /\ lastScanResults' = DevicesOf(parseArpOutput(reqs[r].stdout), clock)
            /\ reqs'[r].pc = "idle"

\* C14: in a discover request the sweep, when refresh is set, is over before the
\* read of the address table starts, a request without refresh runs no sweep,
\* nothing is read before the read has started, and the stored scan is replaced
\* only by the aggregation of a read that has ended.
C14_DiscoverStepsInOrder ==
    /\ [](\A r \in Slots :
            /\ (reqs[r].refresh /\ reqs[r].pc \in {"arp", "arpDone"}) => SweepOver
            /\ (reqs[r].pc # "idle" /\ ~reqs[r].refresh) => sweep.pc \in {"idle", "returned"}
            /\ reqs[r].pc \in {"sweeping", "arp"} => reqs[r].readAt = 0 /\ reqs[r].stdout = <<>>
            /\ reqs[r].pc = "arpDone" => reqs[r].readAt > 0)
    /\ [][StoreFollowsAggregation]_vars

\* a discover with refresh has stored a non-empty list, read after its sweep of
\* 254 probes had returned
C14_Witness ==
    /\ answered.call.refresh
    /\ answered.replaced
    /\ answered.call.readAt > 0
    /\ lastScanTime >= answered.call.readAt
    /\ lastScanResults = answered.response.devices
    /\ lastScanResults # <<>>
    /\ SweepOver

(***************************************************************************)
(* Claims about all the tools, under SpecTools                             *)
(***************************************************************************)
\* this step changes neither the stored list nor the stored time
StoreUntouched == lastScanResults' = lastScanResults /\ lastScanTime' = lastScanTime

\* the tools that run a scan
ScanningTools ==
    {"homescan_discover", "homescan_diff", "homescan_device", "homescan_report",
     "homescan_export", "homescan_flagged"}

\* the step in which the arp -a of the request in slot r fails
ArpFails(r) == reqs[r].pc = "arp" /\ reqs'[r].pc = "arpDone" /\ reqs'[r].failed

\* the step that ends the request in slot r, whose arp -a failed
FailedEnds(r) == reqs[r].pc = "arpDone" /\ reqs[r].failed /\ reqs'[r] # reqs[r]

\* C15: a request whose arp -a failed is answered with an error in its next
\* step, without a second arp -a, and neither the failure nor the answer changes
\* the stored list or time: no baseline after a failed discover, no new baseline
\* after a failed diff; an error is answered for no other scan.
C15_FailedScanChangesNothing ==
    /\ [][\A r \in Slots :
            /\ ArpFails(r) => StoreUntouched
            /\ FailedEnds(r) =>
                  /\ reqs'[r].pc = "idle"
                  /\ answered'.call.id = reqs[r].id
                  /\ answered'.call.tool = reqs[r].tool
                  /\ answered'.response.isError
                  /\ StoreUntouched]_vars
    /\ [](\A r \in Slots :
            /\ reqs[r].pc = "arp" => ~reqs[r].failed /\ reqs[r].readAt = 0
            /\ reqs[r].pc # "idle" => reqs[r].tool \in ScanningTools)
    /\ [](answered.response.isError <=> answered.call.failed)
    /\ [](answered.call.failed => ~answered.replaced /\ snapHist.by # answered.call.id)

\* a diff that had a baseline has been answered with an error, and the stored
\* list and time are still those of before its failed read
C15_Witness ==
    /\ answered.response.isError
    /\ answered.call.tool = "homescan_diff"
    /\ answered.call.hadDiscover
    /\ lastScanResults # <<>>
    /\ lastScanTime > 0
    /\ lastScanTime < answered.call.readAt

\* this step answers a call
AnswerGiven == answered'.call.id # answered.call.id

\* the step is the one in which a discover whose arp -a succeeded, or such a
\* diff, which then has a baseline, stores its list and the time together
StoredByDiscoverOrDiff ==
    \E r \in Slots :
        /\ reqs[r].pc = "arpDone"
        /\ ~reqs[r].failed
        /\ reqs[r].tool \in {"homescan_discover", "homescan_diff"}
        /\ reqs[r].tool = "homescan_diff" => reqs[r].hadDiscover /\ lastScanTime # 0
        /\ reqs'[r].pc = "idle"
        /\ answered'.call.id = reqs[r].id
        /\ answered'.replaced
        /\ lastScanResults' = answered'.response.devices
        /\ lastScanTime' = clock
        /\ lastScanTime' = answered'.response.currentScanTime

\* C16: the stored list and the stored time change only in the step in which a
\* successful discover, or a diff that has a baseline, stores both; the step
\* that answers homescan_device, homescan_mac_lookup, homescan_report,
\* homescan_export or homescan_flagged changes neither, although it answers
\* with a scan of its own.
C16_OnlyDiscoverAndDiffStore ==
    /\ [][(~StoreUntouched) => StoredByDiscoverOrDiff]_vars
    /\ [][(AnswerGiven /\ answered'.call.tool \notin {"homescan_discover", "homescan_diff"})
            => StoreUntouched /\ ~answered'.replaced]_vars
    /\ []((lastScanTime = 0) <=> (snapHist.by = 0))
    /\ [](answered.replaced =>
            /\ answered.call.tool \in {"homescan_discover", "homescan_diff"}
            /\ ~answered.call.failed)

\* homescan_report has answered with the devices of its own scan, which are not
\* those of the stored list, and the stored time is older than that scan
C16_Witness ==
    /\ answered.response.kind = "report"
    /\ answered.response.devices # <<>>
    /\ MacsOf(answered.response.devices) # MacsOf(lastScanResults)
    /\ lastScanResults # <<>>
    /\ lastScanTime > 0
    /\ lastScanTime < answered.call.readAt

(***************************************************************************)
(* Claims about the chain of baselines, under Spec                         *)
(***************************************************************************)
\* the step in which the request in slot r stores its scan
Replaces(r) ==
    /\ reqs[r].pc = "arpDone"
    /\ ~reqs[r].failed
    /\ reqs'[r].pc = "idle"
    /\ answered'.replaced

\* what a diff reports as previous is what its own replace overwrites: the list
\* and the time stored right before the step in which it stores its own
DiffReportsWhatItReplaces ==
    \A r \in Slots :
        (Replaces(r) /\ reqs[r].tool = "homescan_diff") =>
            /\ answered'.response.previousScanTime = lastScanTime
            /\ answered'.baseline = lastScanResults
            /\ answered'.overBy = snapHist.by
            /\ answered'.response.newDevices
                  = NewDevices(answered'.response.devices, lastScanResults)
            /\ answered'.response.removedDevices
                  = RemovedDevices(answered'.response.devices, lastScanResults)
            /\ lastScanResults' = answered'.response.devices
            /\ snapHist'.by = reqs[r].id

\* a stored list is replaced at most once, and never after it was a baseline
ReplacedOnce ==
    \A r \in Slots :
        Replaces(r) =>
            /\ snapHist.by \notin snapHist.used \cup snapHist.lost
            /\ reqs[r].id \notin snapHist.used \cup snapHist.lost \cup {snapHist.by}

\* C17 as claimed: a diff reports as previous exactly the list and time its own
\* replace overwrites, and every list a discover or diff stored is either still
\* stored or was the baseline of exactly one diff.
C17_EveryBaselineDiffedOnce ==
    /\ [][DiffReportsWhatItReplaces /\ ReplacedOnce]_vars
    /\ [](snapHist.lost = {})

\* C17 as amended: a diff reports as previous exactly the list and time its own
\* replace overwrites, and every list a discover or diff stored is still stored,
\* or was the baseline of exactly one diff, or was replaced by a discover and
\* then is the baseline of no diff.
C17_BaselineDiffedAtMostOnce ==
    /\ [][DiffReportsWhatItReplaces /\ ReplacedOnce]_vars
    /\ [](/\ snapHist.used \cap snapHist.lost = {}
          /\ snapHist.by \notin snapHist.used \cup snapHist.lost
          /\ (answered.replaced /\ answered.call.tool = "homescan_diff")
                => answered.overBy \in snapHist.used
          /\ (answered.replaced /\ answered.call.tool = "homescan_discover")
                => answered.overBy \in snapHist.lost \cup {0})

\* two diffs overlapped: the one that read the address table first stored last,
\* and reported as previous the list the other had stored
C17_Witness ==
    /\ answered.replaced
    /\ answered.call.tool = "homescan_diff"
    /\ answered.overTool = "homescan_diff"
    /\ answered.overBy > answered.call.id
    /\ answered.overReadAt > answered.call.readAt
    /\ answered.overBy \in snapHist.used
    /\ answered.baseline # <<>>
    /\ snapHist.lost = {}

====
